---- MODULE Spec2Model ----
(***************************************************************************)
(* Rule-based benefit recommender (src/app/recommender.py) over the        *)
(* catalog loaded at process start (src/app/main.py).                      *)
(*                                                                         *)
(* Values.  A JSON value that may be missing or null is a sequence of      *)
(* length 0 (None) or 1 (Some(v)).  A date/time string is a record         *)
(* [fmt, day, tod, tz]: fmt "date" is "YYYY-MM-DD", fmt "datetime" is      *)
(* "YYYY-MM-DDTHH:MM:SS" followed by tz ("" or "Z"), fmt "bad" is a string *)
(* no parser accepts and fmt "empty" is "".  Scores are fixed-point        *)
(* numbers, Scale units to the point, exact for integer benefit values.    *)
(***************************************************************************)
EXTENDS Integers, Sequences, FiniteSets, TLC

VARIABLES offers, events, pc, args, ret

vars == <<offers, events, pc, args, ret>>

\* ------------------------------------------------------------------ bounds
MaxDay == 3
MaxTod == 2
MaxCatalog == 3

\* ------------------------------------------------------------ JSON values
None == <<>>
Some(v) == <<v>>

\* Python truthiness of an optional string and of an optional list (a set here).
TruthyStr(x) == x # None /\ x[1] # ""
TruthyList(x) == x # None /\ x[1] # {}

Min(a, b) == IF a <= b THEN a ELSE b

\* ------------------------------------------------------ date/time strings
DateStr(d) == [fmt |-> "date", day |-> d, tod |-> 0, tz |-> ""]
DateTimeStr(d, t, z) == [fmt |-> "datetime", day |-> d, tod |-> t, tz |-> z]
BadStr == [fmt |-> "bad", day |-> 0, tod |-> 0, tz |-> ""]
EmptyStr == [fmt |-> "empty", day |-> 0, tod |-> 0, tz |-> ""]

\* `if start:` on an optional date string.
TruthyDateStr(x) == x # None /\ x[1].fmt # "empty"

\* datetime.fromisoformat(s.replace("Z", "+00:00")): a raise (ValueError), or
\* the datetime, which is aware exactly when the string carries an offset.
\* A date-only string parses to midnight of that day, naive.
fromisoformat(s) ==
    IF s.fmt \in {"bad", "empty"}
    THEN [raised |-> TRUE, day |-> 0, tod |-> 0, aware |-> FALSE]
    ELSE [raised |-> FALSE, day |-> s.day, tod |-> s.tod, aware |-> s.tz # ""]

\* a < b on two datetimes; comparing an aware with a naive one raises TypeError.
CompareRaises(a, b) == a.aware # b.aware
Earlier(a, b) == a.day < b.day \/ (a.day = b.day /\ a.tod < b.tod)

\* ------------------------------------------------------------ is_valid_date
\* A validity dict: `empty` is the dict {} (no key at all), which is falsy.
ValidityDict(s, e) == [empty |-> FALSE, start |-> s, end |-> e]
EmptyDict == [empty |-> TRUE, start |-> None, end |-> None]
TruthyValidity(v) == v # None /\ ~v[1].empty

\* The try block of is_valid_date, lines 36-48, one statement after another;
\* the value is "raise", TRUE or FALSE.
ValidTryBlock(start, end, target_date) ==
    LET target == fromisoformat(target_date)
        start_dt == fromisoformat(start[1])
        end_dt == fromisoformat(end[1])
    IN  IF target.raised THEN "raise"
        ELSE IF TruthyDateStr(start) /\ start_dt.raised THEN "raise"
        ELSE IF TruthyDateStr(start) /\ CompareRaises(target, start_dt) THEN "raise"
        ELSE IF TruthyDateStr(start) /\ Earlier(target, start_dt) THEN "false"
        ELSE IF TruthyDateStr(end) /\ end_dt.raised THEN "raise"
        ELSE IF TruthyDateStr(end) /\ CompareRaises(target, end_dt) THEN "raise"
        ELSE IF TruthyDateStr(end) /\ Earlier(end_dt, target) THEN "false"
        ELSE "true"

is_valid_date(validity, target_date) ==
    IF ~TruthyValidity(validity) THEN TRUE
    ELSE LET r == ValidTryBlock(validity[1].start, validity[1].end, target_date)
         IN  IF r = "raise" THEN TRUE ELSE r = "true"

\* ------------------------------------------- specification: is_valid_date
Days == 0..MaxDay
Tods == 0..MaxTod
BoundValues == {None, Some(EmptyStr), Some(BadStr)} \cup {Some(DateStr(d)) : d \in Days}
Validities ==
    {None, Some(EmptyDict)} \cup {Some(ValidityDict(s, e)) : s \in BoundValues, e \in BoundValues}
PlanDateTimes ==
    {BadStr} \cup {DateTimeStr(d, t, z) : d \in Days, t \in Tods, z \in {"", "Z"}}

InitValid ==
    /\ offers = <<>>
    /\ events = <<>>
    /\ pc = "call"
    /\ args \in [validity : Validities, target_date : PlanDateTimes]
    /\ ret = FALSE

CallIsValidDate ==
    /\ pc = "call"
    /\ ret' = is_valid_date(args.validity, args.target_date)
    /\ pc' = "done"
    /\ UNCHANGED <<offers, events, args>>

SpecValid == InitValid /\ [][CallIsValidDate]_vars

\* -------------------------------------------------------- check_eligibility
\* An eligibility dict; a list is the set of its elements.
EligibilityDict(t, c) == [empty |-> FALSE, telecom_any_of |-> t, cards_any_of |-> c]
EmptyEligibility == [empty |-> TRUE, telecom_any_of |-> None, cards_any_of |-> None]
TruthyEligibility(e) == e # None /\ ~e[1].empty

\* Mutant of check_eligibility: either list matching is enough (or for and).
check_eligibility_Either(eligibility, user_telecom, user_payments) ==
    IF ~TruthyEligibility(eligibility) THEN TRUE
    ELSE LET telecom_list == eligibility[1].telecom_any_of
             cards_list == eligibility[1].cards_any_of
         IN  IF ~TruthyList(telecom_list) /\ ~TruthyList(cards_list) THEN TRUE
             ELSE \/ TruthyList(telecom_list) /\ user_telecom \in telecom_list[1]
                  \/ TruthyList(cards_list) /\ \E card \in user_payments : card \in cards_list[1]

check_eligibility(eligibility, user_telecom, user_payments) ==
    IF ~TruthyEligibility(eligibility) THEN TRUE
    ELSE LET telecom_list == eligibility[1].telecom_any_of
             cards_list == eligibility[1].cards_any_of
             telecom_match ==
                 IF TruthyList(telecom_list) THEN user_telecom \in telecom_list[1] ELSE TRUE
             cards_match ==
                 IF TruthyList(cards_list)
                 THEN \E card \in user_payments : card \in cards_list[1]
                 ELSE TRUE
         IN  IF ~TruthyList(telecom_list) /\ ~TruthyList(cards_list) THEN TRUE
             ELSE telecom_match /\ cards_match

\* ---------------------------------------------------------- calculate_score
\* Fixed-point unit of a score: value / 1000 is the finest division made.
Scale == 1000

BenefitDict(k, v) == [kind |-> k, value |-> v]

\* A catalog record with every optional field missing.
BlankItem ==
    [id |-> "", type |-> None, brand |-> None, category |-> None, validity |-> None,
     eligibility |-> None, benefit |-> None, notes |-> None, channels |-> None,
     constraints |-> None]

\* Mutant of BrandBonus: the brands compared without regard to case.
Lower(str) == IF str = "B1" THEN "b1" ELSE str
BrandBonusIgnoringCase(item, plan) ==
    IF TruthyStr(item.brand) /\ Lower(item.brand[1]) = Lower(plan.brand) THEN 30 * Scale ELSE 0

BrandBonus(item, plan) ==
    IF TruthyStr(item.brand) /\ item.brand[1] = plan.brand THEN 30 * Scale ELSE 0

CategoryBonus(item, plan) ==
    IF TruthyStr(item.category) /\ item.category[1] = plan.category THEN 20 * Scale ELSE 0

\* Mutant of KindBonus: cashback capped like percent (a copied line).
KindBonusCashbackCap15(kind, value) ==
    IF kind = Some("percent") /\ value # 0 THEN Min((value * Scale) \div 2, 15 * Scale)
    ELSE IF kind = Some("fixed") /\ value # 0 THEN Min((value * Scale) \div 500, 10 * Scale)
    ELSE IF kind = Some("cashback") /\ value # 0 THEN Min((value * Scale) \div 2, 15 * Scale)
    ELSE IF kind = Some("points") /\ value # 0 THEN Min((value * Scale) \div 1000, 8 * Scale)
    ELSE 0

\* Mutant of KindBonus: max where the code takes min, so the cap is a floor.
Max(a, b) == IF a >= b THEN a ELSE b
KindBonusMax(kind, value) ==
    IF kind = Some("percent") /\ value # 0 THEN Max((value * Scale) \div 2, 15 * Scale)
    ELSE IF kind = Some("fixed") /\ value # 0 THEN Max((value * Scale) \div 500, 10 * Scale)
    ELSE IF kind = Some("cashback") /\ value # 0 THEN Max((value * Scale) \div 2, 12 * Scale)
    ELSE IF kind = Some("points") /\ value # 0 THEN Max((value * Scale) \div 1000, 8 * Scale)
    ELSE 0

\* Lines 108-115: the bonus of a benefit of kind `kind` and (non-null) value.
KindBonus(kind, value) ==
    IF kind = Some("percent") /\ value # 0 THEN Min((value * Scale) \div 2, 15 * Scale)
    ELSE IF kind = Some("fixed") /\ value # 0 THEN Min((value * Scale) \div 500, 10 * Scale)
    ELSE IF kind = Some("cashback") /\ value # 0 THEN Min((value * Scale) \div 2, 12 * Scale)
    ELSE IF kind = Some("points") /\ value # 0 THEN Min((value * Scale) \div 1000, 8 * Scale)
    ELSE 0

\* Lines 102-115: read off the record's own "type" field.
BenefitBonus(item) ==
    IF item.type = Some("offer") /\ item.benefit # None
    THEN LET kind == item.benefit[1].kind
             value == IF item.benefit[1].value = None THEN 0 ELSE item.benefit[1].value[1]
         IN  KindBonus(kind, value)
    ELSE 0

NotesBonus(item) ==
    IF item.type = Some("event") /\ TruthyStr(item.notes) THEN 5 * Scale ELSE 0

ChannelsBonus(item) ==
    IF TruthyList(item.channels) /\ "app" \in item.channels[1] THEN 5 * Scale ELSE 0

\* The running `score` just before line 128.
RawScore(item, plan) ==
    50 * Scale + BrandBonus(item, plan) + CategoryBonus(item, plan)
        + BenefitBonus(item) + NotesBonus(item) + ChannelsBonus(item)

calculate_score(item, plan) == Min(RawScore(item, plan), 100 * Scale)

\* ----------------------------------------- specification: calculate_score
Types == {None, Some("offer"), Some("event")}
Brands == {None, Some(""), Some("B1"), Some("b1")}
Categories == {None, Some(""), Some("C1")}
BenefitKinds ==
    {None, Some("percent"), Some("fixed"), Some("cashback"), Some("points"), Some("unknown")}
BenefitValues == {-20, 0, 1, 20, 40, 6000, 9000, 10000}
Benefits ==
    {None} \cup {Some(BenefitDict(k, v)) :
                    k \in BenefitKinds, v \in {None} \cup {Some(n) : n \in BenefitValues}}
NotesValues == {None, Some(""), Some("note")}
ChannelValues == {None, Some({"web"}), Some({"app", "web"})}
ScoredItems ==
    {[BlankItem EXCEPT !.type = ty, !.brand = b, !.category = c, !.benefit = be,
                       !.notes = n, !.channels = ch] :
        ty \in Types, b \in Brands, c \in Categories, be \in Benefits,
        n \in NotesValues, ch \in ChannelValues}
PlanKeys == [brand : {"B1", ""}, category : {"C1", ""}]

InitScore ==
    /\ offers = <<>>
    /\ events = <<>>
    /\ pc = "call"
    /\ args \in [item : ScoredItems, plan : PlanKeys]
    /\ ret = 0

CallCalculateScore ==
    /\ pc = "call"
    /\ ret' = calculate_score(args.item, args.plan)
    /\ pc' = "done"
    /\ UNCHANGED <<offers, events, args>>

SpecScore == InitScore /\ [][CallCalculateScore]_vars

\* ------------------------------------------------------------------ recommend
\* Mutant of Survives: the eligibility filter left out.
SurvivesValidityOnly(item, user, plan) == is_valid_date(item.validity, plan.datetime)

\* Lines 156-161 (and 177-182, 255-258): the two `continue` filters.
Survives(item, user, plan) ==
    /\ is_valid_date(item.validity, plan.datetime)
    /\ check_eligibility(item.eligibility, user.telecom, user.payments)

\* One of the two loops of recommend: the surviving records of `list`, in
\* order, each wrapped with its score and the tag of the list.
Collected(list, tag, user, plan) ==
    LET kept == SelectSeq(list, LAMBDA item : Survives(item, user, plan))
    IN  [i \in 1..Len(kept) |->
            [item |-> kept[i], score |-> calculate_score(kept[i], plan), type |-> tag]]

\* Mutant of InsertByScore: x goes before the elements of its own score, so
\* records of equal score come out in reverse insertion order.
RECURSIVE InsertByScoreBeforeTies(_, _)
InsertByScoreBeforeTies(sorted, x) ==
    IF sorted = <<>> THEN <<x>>
    ELSE IF Head(sorted).score > x.score
         THEN <<Head(sorted)>> \o InsertByScoreBeforeTies(Tail(sorted), x)
         ELSE <<x>> \o sorted

\* list.sort(key=score, reverse=True): stable, so x goes after every element
\* whose score is at least its own.
RECURSIVE InsertByScore(_, _)
InsertByScore(sorted, x) ==
    IF sorted = <<>> THEN <<x>>
    ELSE IF Head(sorted).score >= x.score
         THEN <<Head(sorted)>> \o InsertByScore(Tail(sorted), x)
         ELSE <<x>> \o sorted

\* Mutant of SortByScoreDesc: reverse=True forgotten, the sort is ascending.
RECURSIVE InsertByScoreAsc(_, _)
InsertByScoreAsc(sorted, x) ==
    IF sorted = <<>> THEN <<x>>
    ELSE IF Head(sorted).score <= x.score
         THEN <<Head(sorted)>> \o InsertByScoreAsc(Tail(sorted), x)
         ELSE <<x>> \o sorted

RECURSIVE SortByScoreAsc(_)
SortByScoreAsc(seq) ==
    IF seq = <<>> THEN <<>>
    ELSE InsertByScoreAsc(SortByScoreAsc(SubSeq(seq, 1, Len(seq) - 1)), seq[Len(seq)])

RECURSIVE SortByScoreDesc(_)
SortByScoreDesc(seq) ==
    IF seq = <<>> THEN <<>>
    ELSE InsertByScore(SortByScoreDesc(SubSeq(seq, 1, Len(seq) - 1)), seq[Len(seq)])

\* seq[:k]
Prefix(seq, k) ==
    IF k >= 0 THEN SubSeq(seq, 1, Min(k, Len(seq)))
    ELSE SubSeq(seq, 1, IF Len(seq) + k > 0 THEN Len(seq) + k ELSE 0)

\* round(score, 2) of a score in thousandths.  A score ending in 5 thousandths
\* has no exact binary form; it is taken upwards here.
Round2(score) ==
    LET r == score % 10
    IN  IF r < 5 THEN score - r ELSE score - r + 10

recommend(user, plan, offer_list, event_list, top_k) ==
    LET all_items == Collected(offer_list, "offer", user, plan)
                        \o Collected(event_list, "event", user, plan)
        top_items == Prefix(SortByScoreDesc(all_items), top_k)
    IN  [i \in 1..Len(top_items) |->
            [recommendation_score |-> Round2(top_items[i].score)] @@ top_items[i].item]

\* ------------------------------------------------ specification: the service
TimeStr(t) == [fmt |-> "time", day |-> 0, tod |-> t, tz |-> ""]
\* A times dict: `empty` is the dict {} (no key at all), which is falsy.
TimeRange(s, e) == [empty |-> FALSE, start |-> s, end |-> e]
EmptyTimeRange == [empty |-> TRUE, start |-> None, end |-> None]
ConstraintsDict(d, t) == [days_of_week |-> d, times |-> t]

Window(s, e) == Some(ValidityDict(Some(DateStr(s)), Some(DateStr(e))))

\* --------------------------------------- specification: check_eligibility
ListValues == {None, Some({})}
TelecomLists == ListValues \cup {Some({"SKT"}), Some({"SKT", "KT"})}
CardLists == ListValues \cup {Some({"CardX"}), Some({"CardX", "CardZ"})}
Eligibilities ==
    {None, Some(EmptyEligibility)}
        \cup {Some(EligibilityDict(t, c)) : t \in TelecomLists, c \in CardLists}
Telecoms == {"SKT", "KT", "LGU"}
PaymentSets == SUBSET {"CardX", "CardY"}

InitElig ==
    /\ offers = <<>>
    /\ events = <<>>
    /\ pc = "call"
    /\ args \in [eligibility : Eligibilities, user_telecom : Telecoms,
                 user_payments : PaymentSets]
    /\ ret = FALSE

CallCheckEligibility ==
    /\ pc = "call"
    /\ ret' = check_eligibility(args.eligibility, args.user_telecom, args.user_payments)
    /\ pc' = "done"
    /\ UNCHANGED <<offers, events, args>>

SpecElig == InitElig /\ [][CallCheckEligibility]_vars

\* --------------------------------------------------------- is_time_in_range
\* `not start_time_str` on an optional "HH:MM" string.
TruthyTimeStr(x) == x # None /\ x[1].fmt # "empty"

\* datetime.strptime(s, "%H:%M").time(): a raise (ValueError), or the time.
strptime(s) ==
    IF s.fmt = "time" THEN [raised |-> FALSE, tod |-> s.tod]
    ELSE [raised |-> TRUE, tod |-> 0]

\* Mutant of TimeTryBlock: a window past midnight tested like a plain one.
TimeTryBlockNoWrap(target_datetime, start_time_str, end_time_str) ==
    LET dt == fromisoformat(target_datetime)
        start == strptime(start_time_str)
        end == strptime(end_time_str)
    IN  IF dt.raised \/ start.raised \/ end.raised THEN "raise"
        ELSE IF start.tod <= dt.tod /\ dt.tod <= end.tod THEN "true" ELSE "false"

\* The try block of is_time_in_range, lines 214-224: "raise", "true" or "false".
\* Line 214 parses the instant as it is; an offset suffix is accepted and
\* dt.time() is the wall-clock time written in the string.
TimeTryBlock(target_datetime, start_time_str, end_time_str) ==
    LET dt == fromisoformat(target_datetime)
        target_time == dt.tod
        start == strptime(start_time_str)
        end == strptime(end_time_str)
        inside ==
            IF start.tod <= end.tod
            THEN start.tod <= target_time /\ target_time <= end.tod
            ELSE start.tod <= target_time \/ target_time <= end.tod
    IN  IF dt.raised \/ start.raised \/ end.raised THEN "raise"
        ELSE IF inside THEN "true" ELSE "false"

\* Mutant of is_time_in_range: an exception closes the window instead.
is_time_in_range_FailClosed(target_datetime, start_time_str, end_time_str) ==
    IF ~TruthyTimeStr(start_time_str) \/ ~TruthyTimeStr(end_time_str) THEN TRUE
    ELSE TimeTryBlock(target_datetime, start_time_str[1], end_time_str[1]) = "true"

is_time_in_range(target_datetime, start_time_str, end_time_str) ==
    IF ~TruthyTimeStr(start_time_str) \/ ~TruthyTimeStr(end_time_str) THEN TRUE
    ELSE LET r == TimeTryBlock(target_datetime, start_time_str[1], end_time_str[1])
         IN  IF r = "raise" THEN TRUE ELSE r = "true"

\* ---------------------------------------- specification: is_time_in_range
TimeValues == {None, Some(EmptyStr), Some(BadStr)} \cup {Some(TimeStr(t)) : t \in Tods}

InitTime ==
    /\ offers = <<>>
    /\ events = <<>>
    /\ pc = "call"
    /\ args \in [target_datetime : PlanDateTimes, start_time_str : TimeValues,
                 end_time_str : TimeValues]
    /\ ret = FALSE

CallIsTimeInRange ==
    /\ pc = "call"
    /\ ret' = is_time_in_range(args.target_datetime, args.start_time_str, args.end_time_str)
    /\ pc' = "done"
    /\ UNCHANGED <<offers, events, args>>

SpecTime == InitTime /\ [][CallIsTimeInRange]_vars

\* Records an offers file may hold.
OfferPool ==
    { [BlankItem EXCEPT !.id = "o1", !.brand = Some("B1"), !.category = Some("C1"),
                        !.validity = Window(0, 2),
                        !.benefit = Some(BenefitDict(Some("percent"), Some(20)))],
      [BlankItem EXCEPT !.id = "o2", !.type = Some("offer"), !.brand = Some("B2"),
                        !.category = Some("C1"),
                        !.eligibility = Some(EligibilityDict(Some({"SKT"}), None)),
                        !.benefit = Some(BenefitDict(Some("fixed"), Some(6000))),
                        !.constraints = Some(ConstraintsDict(None,
                                            Some(TimeRange(Some(TimeStr(1)), Some(TimeStr(2))))))],
      [BlankItem EXCEPT !.id = "o3", !.type = Some("offer"), !.brand = Some("B1"),
                        !.category = Some("C2"),
                        !.validity = Some(ValidityDict(Some(DateStr(2)), None)),
                        !.eligibility = Some(EligibilityDict(None, Some({"CardX"}))),
                        !.benefit = Some(BenefitDict(Some("percent"), Some(-200))),
                        !.channels = Some({"app"}),
                        !.constraints = Some(ConstraintsDict(Some({0, 1}), None))],
      [BlankItem EXCEPT !.id = "o4"],
      [BlankItem EXCEPT !.id = "o5", !.type = Some("offer"), !.brand = Some("B1"),
                        !.category = Some("C1"), !.validity = Window(0, 2),
                        !.eligibility = Some(EligibilityDict(Some({"KT"}), Some({"CardY"}))),
                        !.benefit = Some(BenefitDict(Some("points"), Some(1)))],
      [BlankItem EXCEPT !.id = "o6", !.eligibility = Some(EmptyEligibility),
                        !.validity = Some(EmptyDict)] }

\* Records an events file may hold.
EventPool ==
    { [BlankItem EXCEPT !.id = "e1", !.type = Some("event"), !.brand = Some("B1"),
                        !.category = Some("C1"), !.validity = Window(0, 2),
                        !.notes = Some("note")],
      [BlankItem EXCEPT !.id = "e2", !.brand = Some("B2"), !.notes = Some("note"),
                        !.eligibility = Some(EligibilityDict(Some({"SKT"}), None))],
      [BlankItem EXCEPT !.id = "e3"],
      [BlankItem EXCEPT !.id = "e4", !.type = Some("event"), !.category = Some("C1"),
                        !.benefit = Some(BenefitDict(Some("percent"), Some(20))),
                        !.channels = Some({"app"})] }

SeqsUpTo(S, n) == UNION {[1..m -> S] : m \in 0..n}

Users ==
    { [telecom |-> "SKT", payments |-> {"CardX"}],
      [telecom |-> "KT", payments |-> {"CardY"}],
      [telecom |-> "LGU", payments |-> {"CardX", "CardY"}] }

Plans ==
    [datetime : {DateTimeStr(1, 1, ""), DateTimeStr(3, 1, ""), DateTimeStr(3, 1, "Z")},
     brand : {"B1"}, category : {"C1"}]
    \cup
    [datetime : {DateTimeStr(1, 1, ""), DateTimeStr(3, 1, ""), DateTimeStr(3, 1, "Z")},
     brand : {"B2"}, category : {"C2"}]

TopKs == 0..MaxCatalog

\* The catalog is read once, when the module is imported (main.py lines 26-30).
Init ==
    /\ offers \in SeqsUpTo(OfferPool, MaxCatalog)
    /\ events \in SeqsUpTo(EventPool, MaxCatalog)
    /\ Len(offers) + Len(events) <= MaxCatalog
    /\ pc = "idle"
    /\ args = <<>>
    /\ ret = <<>>

\* A request calls recommend(user, plan, OFFERS, EVENTS, top_k).
Recommend ==
    /\ pc = "idle"
    /\ \E user \in Users, plan \in Plans, top_k \in TopKs :
        /\ args' = [user |-> user, plan |-> plan, top_k |-> top_k]
        /\ ret' = recommend(user, plan, offers, events, top_k)
    /\ pc' = "recommend"
    /\ UNCHANGED <<offers, events>>

\* The response is built and the request's working data is dropped.
Respond ==
    /\ pc # "idle"
    /\ pc' = "idle"
    /\ args' = <<>>
    /\ ret' = <<>>
    /\ UNCHANGED <<offers, events>>

Next == Recommend \/ Respond

Spec == Init /\ [][Next]_vars

\* ---------------------------------------------------- recommend_alternatives
\* Lines 247-251: offers then events, each copied with the tag of its list
\* under the key "_type".
TaggedItems(offer_list, event_list) ==
    [i \in 1..Len(offer_list) |-> ("_type" :> "offer") @@ offer_list[i]]
        \o [i \in 1..Len(event_list) |-> ("_type" :> "event") @@ event_list[i]]

\* safe_get(safe_get(item, "constraints"), "times")
TimesOf(item) == IF item.constraints = None THEN None ELSE item.constraints[1].times
TruthyTimes(times) == times # None /\ ~times[1].empty

\* The text of alternative_reason: which sentence, and the values put in it.
AtVisitTime(plan, start, end) ==
    [text |-> "available at planned visit time", brand |-> Some(plan.brand),
     other |-> None, start |-> start, end |-> end]
Anytime(plan) ==
    [text |-> "available anytime", brand |-> Some(plan.brand),
     other |-> None, start |-> None, end |-> None]
InsteadOf(plan, item) ==
    [text |-> "instead of", brand |-> Some(plan.brand),
     other |-> item.brand, start |-> None, end |-> None]

\* item.copy() with alternative_reason and score set.
ItemCopy(item, reason, score) ==
    ("alternative_reason" :> reason) @@ ("score" :> score) @@ item

\* Mutant of NearTimeEntry: the time window is not consulted.
NearTimeEntryAnyTime(item, plan) ==
    IF item.brand = Some(plan.brand)
    THEN <<ItemCopy(item, Anytime(plan), calculate_score(item, plan) + 10 * Scale)>>
    ELSE <<>>

\* Mutant of NearTimeEntry: the bonus of the timed branch given to both.
NearTimeEntrySameBonus(item, plan) ==
    LET score == calculate_score(item, plan)
        times == TimesOf(item)
    IN  IF item.brand # Some(plan.brand) THEN <<>>
        ELSE IF TruthyTimes(times)
             THEN IF is_time_in_range(plan.datetime, times[1].start, times[1].end)
                  THEN <<ItemCopy(item, AtVisitTime(plan, times[1].start, times[1].end),
                                  score + 20 * Scale)>>
                  ELSE <<>>
             ELSE <<ItemCopy(item, Anytime(plan), score + 20 * Scale)>>

\* Mutant of NearTimeEntry: a record without time window gets no bonus.
NearTimeEntryNoAnytimeBonus(item, plan) ==
    LET score == calculate_score(item, plan)
        times == TimesOf(item)
    IN  IF item.brand # Some(plan.brand) THEN <<>>
        ELSE IF TruthyTimes(times)
             THEN IF is_time_in_range(plan.datetime, times[1].start, times[1].end)
                  THEN <<ItemCopy(item, AtVisitTime(plan, times[1].start, times[1].end),
                                  score + 20 * Scale)>>
                  ELSE <<>>
             ELSE <<ItemCopy(item, Anytime(plan), score)>>

\* Lines 264-281: what a surviving item adds to near_time_candidates.
NearTimeEntry(item, plan) ==
    LET score == calculate_score(item, plan)
        times == TimesOf(item)
    IN  IF item.brand # Some(plan.brand) THEN <<>>
        ELSE IF TruthyTimes(times)
             THEN IF is_time_in_range(plan.datetime, times[1].start, times[1].end)
                  THEN <<ItemCopy(item, AtVisitTime(plan, times[1].start, times[1].end),
                                  score + 20 * Scale)>>
                  ELSE <<>>
             ELSE <<ItemCopy(item, Anytime(plan), score + 10 * Scale)>>

\* Mutant of CategoryEntry: the brand is not compared.
CategoryEntryAnyBrand(item, plan) ==
    IF item.category = Some(plan.category)
    THEN <<ItemCopy(item, InsteadOf(plan, item), calculate_score(item, plan))>>
    ELSE <<>>

\* Mutant of CategoryEntry: a record of the planned brand counts as an
\* alternative of its category when its time window excludes it.
CategoryEntryFallback(item, plan) ==
    LET times == TimesOf(item)
        shut == /\ item.brand = Some(plan.brand)
                /\ TruthyTimes(times)
                /\ ~is_time_in_range(plan.datetime, times[1].start, times[1].end)
    IN  IF (item.brand # Some(plan.brand) \/ shut) /\ item.category = Some(plan.category)
        THEN <<ItemCopy(item, InsteadOf(plan, item), calculate_score(item, plan))>>
        ELSE <<>>

\* Lines 285-292: what a surviving item adds to category_candidates.
CategoryEntry(item, plan) ==
    IF item.brand # Some(plan.brand) /\ item.category = Some(plan.category)
    THEN <<ItemCopy(item, InsteadOf(plan, item), calculate_score(item, plan))>>
    ELSE <<>>

\* Mutant of Candidates: the eligibility filter is skipped.
RECURSIVE CandidatesValidOnly(_, _, _, _)
CandidatesValidOnly(items, track, user, plan) ==
    IF items = <<>> THEN <<>>
    ELSE LET item == Head(items)
             entry == IF ~is_valid_date(item.validity, plan.datetime) THEN <<>>
                      ELSE IF track = "near" THEN NearTimeEntry(item, plan)
                      ELSE CategoryEntry(item, plan)
         IN  entry \o CandidatesValidOnly(Tail(items), track, user, plan)

\* The loop of lines 253-292 for one of the two candidate lists; track is
\* "near" or "category".
RECURSIVE Candidates(_, _, _, _)
Candidates(items, track, user, plan) ==
    IF items = <<>> THEN <<>>
    ELSE LET item == Head(items)
             entry == IF ~Survives(item, user, plan) THEN <<>>
                      ELSE IF track = "near" THEN NearTimeEntry(item, plan)
                      ELSE CategoryEntry(item, plan)
         IN  entry \o Candidates(Tail(items), track, user, plan)

\* Mutant of TrackOf: one budget of top_k entries shared by the two tracks, the
\* near-time track served first.
TrackOfSharedBudget(items, track, user, plan, top_k) ==
    LET near == Prefix(SortByScoreDesc(Candidates(items, "near", user, plan)), top_k)
    IN  IF track = "near" THEN near
        ELSE Prefix(SortByScoreDesc(Candidates(items, "category", user, plan)),
                    IF top_k - Len(near) > 0 THEN top_k - Len(near) ELSE 0)

\* Lines 295-300: a track sorted and cut to top_k.
TrackOf(items, track, user, plan, top_k) ==
    Prefix(SortByScoreDesc(Candidates(items, track, user, plan)), top_k)

recommend_alternatives(user, plan, offer_list, event_list, top_k) ==
    LET items == TaggedItems(offer_list, event_list)
    IN  [near_time_offers |-> TrackOf(items, "near", user, plan, top_k),
         category_alternatives |-> TrackOf(items, "category", user, plan, top_k)]

\* ------------------------------------- specification: the alternatives call
Times(s, e) == Some(ConstraintsDict(None, Some(TimeRange(s, e))))

AltOfferPool ==
    { [BlankItem EXCEPT !.id = "a1", !.type = Some("offer"), !.brand = Some("B1"),
                        !.category = Some("C1"),
                        !.benefit = Some(BenefitDict(Some("percent"), Some(20))),
                        !.constraints = Times(Some(TimeStr(1)), Some(TimeStr(2)))],
      [BlankItem EXCEPT !.id = "a2", !.brand = Some("B1"), !.category = Some("C2"),
                        !.constraints = Some(ConstraintsDict(None, Some(EmptyTimeRange)))],
      [BlankItem EXCEPT !.id = "a3", !.brand = Some("B1"), !.category = Some("C1"),
                        !.constraints = Times(Some(TimeStr(2)), None)],
      [BlankItem EXCEPT !.id = "a4", !.type = Some("offer"), !.brand = Some("B2"),
                        !.category = Some("C1"),
                        !.eligibility = Some(EligibilityDict(Some({"SKT"}), None)),
                        !.benefit = Some(BenefitDict(Some("percent"), Some(40))),
                        !.channels = Some({"app"})],
      [BlankItem EXCEPT !.id = "a5", !.category = Some("C1")],
      [BlankItem EXCEPT !.id = "a6", !.type = Some("offer"), !.brand = Some("B1"),
                        !.category = Some("C1"), !.validity = Window(0, 2),
                        !.constraints = Some(ConstraintsDict(Some({0}),
                                            Some(TimeRange(Some(TimeStr(2)), Some(TimeStr(0))))))],
      [BlankItem EXCEPT !.id = "a7", !.brand = Some("B1"),
                        !.constraints = Times(None, None)] }

AltEventPool ==
    { [BlankItem EXCEPT !.id = "v1", !.type = Some("event"), !.brand = Some("B1"),
                        !.category = Some("C1"), !.notes = Some("note")],
      [BlankItem EXCEPT !.id = "v2", !.type = Some("event"), !.brand = Some("B2"),
                        !.category = Some("C1"), !.channels = Some({"app"})],
      [BlankItem EXCEPT !.id = "v3"] }

AltUsers ==
    { [telecom |-> "SKT", payments |-> {"CardX"}],
      [telecom |-> "KT", payments |-> {"CardY"}] }

AltPlans ==
    [datetime : {DateTimeStr(1, 1, ""), DateTimeStr(1, 0, ""), DateTimeStr(3, 1, "")},
     brand : {"B1"}, category : {"C1"}]
    \cup
    [datetime : {DateTimeStr(1, 1, ""), DateTimeStr(1, 0, ""), DateTimeStr(3, 1, "")},
     brand : {"B2"}, category : {"C2"}]

InitAlt ==
    /\ offers \in SeqsUpTo(AltOfferPool, MaxCatalog)
    /\ events \in SeqsUpTo(AltEventPool, MaxCatalog)
    /\ Len(offers) + Len(events) <= MaxCatalog
    /\ pc = "idle"
    /\ args = <<>>
    /\ ret = <<>>

\* A call recommend_alternatives(user, plan, offers, events, top_k) on the
\* loaded catalog; top_k is the function's parameter (the endpoint passes 3).
RecommendAlternatives ==
    /\ pc = "idle"
    /\ \E user \in AltUsers, plan \in AltPlans, top_k \in TopKs :
        /\ args' = [user |-> user, plan |-> plan, top_k |-> top_k]
        /\ ret' = recommend_alternatives(user, plan, offers, events, top_k)
    /\ pc' = "alternatives"
    /\ UNCHANGED <<offers, events>>

NextAlt == RecommendAlternatives \/ Respond

SpecAlt == InitAlt /\ [][NextAlt]_vars

\* ------------------------------- specification: requests served concurrently
\* The two ranking handlers of src/app/main.py over the one catalog, several
\* requests in flight.  Here pc, args and ret are functions of the request:
\* pc[r] is the position of request r in its handler, args[r] its request body
\* and the function it calls, ret[r] its locals (while looping) or its result.
\* A step is one iteration of a loop over the catalog, so requests interleave
\* at every item.
Requests == {"r1", "r2"}

ServeOfferPool ==
    { [BlankItem EXCEPT !.id = "s1", !.brand = Some("B1"), !.category = Some("C1"),
                        !.benefit = Some(BenefitDict(Some("percent"), Some(20)))],
      [BlankItem EXCEPT !.id = "s2", !.type = Some("offer"), !.brand = Some("B1"),
                        !.category = Some("C1"), !.validity = Window(0, 2),
                        !.eligibility = Some(EligibilityDict(Some({"KT"}), None))] }

ServeEventPool ==
    { [BlankItem EXCEPT !.id = "t1", !.type = Some("event"), !.brand = Some("B1"),
                        !.category = Some("C1")] }

ServeCalls ==
    [fn : {"recommend", "recommend_alternatives"},
     user : {[telecom |-> "SKT", payments |-> {"CardX"}]},
     plan : {[datetime |-> DateTimeStr(1, 1, ""), brand |-> "B1", category |-> "C1"],
             [datetime |-> DateTimeStr(1, 1, ""), brand |-> "B2", category |-> "C1"]},
     top_k : {1, MaxCatalog}]

InitServe ==
    /\ offers \in SeqsUpTo(ServeOfferPool, MaxCatalog)
    /\ events \in SeqsUpTo(ServeEventPool, MaxCatalog)
    /\ Len(offers) + Len(events) <= MaxCatalog
    /\ pc = [r \in Requests |-> "idle"]
    /\ args = [r \in Requests |-> <<>>]
    /\ ret = [r \in Requests |-> <<>>]

\* The locals of a call before its first iteration (lines 148 and 243-244; the
\* tagged copies of lines 247-251 are made as the loop reaches each record).
NoCandidates == [n |-> 0, all_items |-> <<>>, near_time_candidates |-> <<>>,
                 category_candidates |-> <<>>]

\* A request arrives and its handler calls the function.
Receive(r) ==
    /\ pc[r] = "idle"
    /\ \E call \in ServeCalls : args' = [args EXCEPT ![r] = call]
    /\ ret' = [ret EXCEPT ![r] = NoCandidates]
    /\ pc' = [pc EXCEPT ![r] = "loop"]
    /\ UNCHANGED <<offers, events>>

\* The record the next iteration reads, with the tag of its list.
NextRecord(r) ==
    LET n == ret[r].n + 1
    IN  IF n <= Len(offers) THEN [item |-> offers[n], tag |-> "offer"]
        ELSE [item |-> events[n - Len(offers)], tag |-> "event"]

\* The locals after one iteration over `rec` (lines 151-169 / 172-190 for
\* recommend, lines 253-292 for recommend_alternatives).
AfterIteration(work, rec, call) ==
    LET tagged == ("_type" :> rec.tag) @@ rec.item
    IN  IF call.fn = "recommend"
        THEN [work EXCEPT
                !.n = @ + 1,
                !.all_items =
                    IF Survives(rec.item, call.user, call.plan)
                    THEN Append(@, [item |-> rec.item,
                                    score |-> calculate_score(rec.item, call.plan),
                                    type |-> rec.tag])
                    ELSE @]
        ELSE [work EXCEPT
                !.n = @ + 1,
                !.near_time_candidates =
                    IF Survives(tagged, call.user, call.plan)
                    THEN @ \o NearTimeEntry(tagged, call.plan) ELSE @,
                !.category_candidates =
                    IF Survives(tagged, call.user, call.plan)
                    THEN @ \o CategoryEntry(tagged, call.plan) ELSE @]

\* Mutant of LoopStep: the iteration writes the tag of the list into the
\* catalog record itself before going on.
LoopStepTaggingInPlace(r) ==
    /\ pc[r] = "loop"
    /\ ret[r].n < Len(offers) + Len(events)
    /\ ret' = [ret EXCEPT ![r] = AfterIteration(@, NextRecord(r), args[r])]
    /\ IF ret[r].n + 1 <= Len(offers)
       THEN /\ offers' = [offers EXCEPT ![ret[r].n + 1].type = Some("offer")]
            /\ events' = events
       ELSE /\ events' = [events EXCEPT ![ret[r].n + 1 - Len(offers)].type = Some("event")]
            /\ offers' = offers
    /\ UNCHANGED <<pc, args>>

\* Mutant of LoopStep: the score is stored in the catalog record.
LoopStepStoringScore(r) ==
    /\ pc[r] = "loop"
    /\ ret[r].n < Len(offers) + Len(events)
    /\ ret' = [ret EXCEPT ![r] = AfterIteration(@, NextRecord(r), args[r])]
    /\ LET score == calculate_score(NextRecord(r).item, args[r].plan)
       IN  IF ret[r].n + 1 <= Len(offers)
           THEN /\ offers' = [offers EXCEPT ![ret[r].n + 1] = ("score" :> score) @@ @]
                /\ events' = events
           ELSE /\ events' = [events EXCEPT ![ret[r].n + 1 - Len(offers)] =
                                                ("score" :> score) @@ @]
                /\ offers' = offers
    /\ UNCHANGED <<pc, args>>

\* Mutant of LoopStep: every record is taken as a candidate, the two filters
\* are not applied.
LoopStepUnfiltered(r) ==
    /\ pc[r] = "loop"
    /\ ret[r].n < Len(offers) + Len(events)
    /\ LET rec == NextRecord(r)
           work == ret[r]
           tagged == ("_type" :> rec.tag) @@ rec.item
       IN  ret' = [ret EXCEPT ![r] =
                [work EXCEPT
                    !.n = @ + 1,
                    !.all_items = Append(@, [item |-> rec.item,
                                             score |-> calculate_score(rec.item, args[r].plan),
                                             type |-> rec.tag]),
                    !.near_time_candidates = @ \o NearTimeEntry(tagged, args[r].plan),
                    !.category_candidates = @ \o CategoryEntry(tagged, args[r].plan)]]
    /\ UNCHANGED <<offers, events, pc, args>>

\* One iteration of the loop of request r; it reads the catalog as it is now
\* and writes only the locals of r.
LoopStep(r) ==
    /\ pc[r] = "loop"
    /\ ret[r].n < Len(offers) + Len(events)
    /\ ret' = [ret EXCEPT ![r] = AfterIteration(@, NextRecord(r), args[r])]
    /\ UNCHANGED <<offers, events, pc, args>>

\* Lines 193-204 / 295-301 on the locals of a call.
ResultOf(work, call, sorted_all, sorted_near, sorted_category) ==
    IF call.fn = "recommend"
    THEN LET top_items == Prefix(sorted_all, call.top_k)
         IN  [i \in 1..Len(top_items) |->
                [recommendation_score |-> Round2(top_items[i].score)] @@ top_items[i].item]
    ELSE [near_time_offers |-> Prefix(sorted_near, call.top_k),
          category_alternatives |-> Prefix(sorted_category, call.top_k)]

\* A descending order of seq in which records of equal score come in the
\* reverse of their order in seq.
SortTiesReversed(seq) ==
    LET rev == [i \in 1..Len(seq) |-> seq[Len(seq) + 1 - i]]
    IN  SortByScoreDesc(rev)

\* Mutant of SortAndCut: the sort is not stable, records of equal score come
\* out in either order.
SortAndCutUnstable(r) ==
    /\ pc[r] = "loop"
    /\ ret[r].n = Len(offers) + Len(events)
    /\ \E stable \in BOOLEAN :
        ret' = [ret EXCEPT ![r] =
            IF stable
            THEN ResultOf(@, args[r], SortByScoreDesc(@.all_items),
                          SortByScoreDesc(@.near_time_candidates),
                          SortByScoreDesc(@.category_candidates))
            ELSE ResultOf(@, args[r], SortTiesReversed(@.all_items),
                          SortTiesReversed(@.near_time_candidates),
                          SortTiesReversed(@.category_candidates))]
    /\ pc' = [pc EXCEPT ![r] = "done"]
    /\ UNCHANGED <<offers, events, args>>

\* The loop of request r is over: sort, cut to top_k, return.
SortAndCut(r) ==
    /\ pc[r] = "loop"
    /\ ret[r].n = Len(offers) + Len(events)
    /\ ret' = [ret EXCEPT ![r] =
            ResultOf(@, args[r], SortByScoreDesc(@.all_items),
                     SortByScoreDesc(@.near_time_candidates),
                     SortByScoreDesc(@.category_candidates))]
    /\ pc' = [pc EXCEPT ![r] = "done"]
    /\ UNCHANGED <<offers, events, args>>

\* The response of request r is sent and its locals are dropped.
Reply(r) ==
    /\ pc[r] = "done"
    /\ pc' = [pc EXCEPT ![r] = "idle"]
    /\ args' = [args EXCEPT ![r] = <<>>]
    /\ ret' = [ret EXCEPT ![r] = <<>>]
    /\ UNCHANGED <<offers, events>>

NextServe == \E r \in Requests : Receive(r) \/ LoopStep(r) \/ SortAndCut(r) \/ Reply(r)

SpecServe == InitServe /\ [][NextServe]_vars

\* ------------------------------------------------- augment_with_llm_messages
\* src/app/llm_recommender.py.  A candidate here is a record [id, title,
\* alternative_reason, validity, benefit]; title and alternative_reason are
\* None when the key is missing.  The value of a benefit is told apart three
\* ways, because benefit_info.get("value", 0) is 0 for a missing key and None
\* for a null: [state |-> "missing" | "null" | "number", num |-> n].
BenefitValue(state, n) == [state |-> state, num |-> n]
NarratedBenefit(kind, value) == [kind |-> kind, value |-> value]

\* Lines 248-264: benefit_text of one item, or the TypeError of int(None)
\* (fixed, points) and of None > 100 (cashback).
BenefitText(benefit) ==
    IF benefit = None THEN [raised |-> FALSE, amount |-> 0, unit |-> ""]
    ELSE LET kind == benefit[1].kind
             value == benefit[1].value
             num == IF value.state = "number" THEN value.num ELSE 0
         IN  IF kind = "percent"
             THEN [raised |-> FALSE, amount |-> num, unit |-> "% off"]
             ELSE IF kind \in {"fixed", "points", "cashback"}
             THEN IF value.state = "null"
                  THEN [raised |-> TRUE, amount |-> 0, unit |-> ""]
                  ELSE [raised |-> FALSE, amount |-> num,
                        unit |-> IF kind = "fixed" THEN "won off"
                                 ELSE IF kind = "points" THEN "P"
                                 ELSE IF num > 100 THEN "won cashback"
                                 ELSE "% cashback"]
             ELSE [raised |-> FALSE, amount |-> 0, unit |-> ""]

\* The language model: not called (no client or no key), a call that raises
\* (network, JSON, a description without id or message), or the descriptions
\* it returns.
Unavailable == [outcome |-> "unavailable", descriptions |-> <<>>]
Fails == [outcome |-> "fails", descriptions |-> <<>>]
Answers(descriptions) == [outcome |-> "answers", descriptions |-> descriptions]

\* Line 328: the dict comprehension; a later description of an id replaces an
\* earlier one.  The value is None when the id has no description.
DescMap(descriptions, id) ==
    LET at == {i \in DOMAIN descriptions : descriptions[i].id = id}
    IN  IF at = {} THEN None
        ELSE Some(descriptions[CHOOSE i \in at : \A j \in at : j <= i].message)

\* Line 340: desc_map.get(id, item.get("alternative_reason", item.get("title", ""))).
MessageOf(item, desc_map) ==
    IF desc_map # None THEN desc_map[1]
    ELSE IF item.alternative_reason # None THEN item.alternative_reason[1]
    ELSE IF item.title # None THEN item.title[1]
    ELSE ""

\* Lines 335-337: validity = item.get("validity", {}) or {}, then its bounds.
BoundOf(item, key) ==
    IF ~TruthyValidity(item.validity) THEN None
    ELSE IF key = "start" THEN item.validity[1].start ELSE item.validity[1].end

augment_with_llm_messages(items, llm) ==
    IF items = <<>> THEN [raised |-> FALSE, data |-> <<>>]
    ELSE IF \E i \in DOMAIN items : BenefitText(items[i].benefit).raised
    THEN [raised |-> TRUE, data |-> <<>>]
    ELSE LET descriptions == IF llm.outcome = "answers" THEN llm.descriptions ELSE <<>>
         IN  [raised |-> FALSE,
              data |-> [i \in DOMAIN items |->
                  [message |-> MessageOf(items[i], DescMap(descriptions, items[i].id)),
                   startAt |-> BoundOf(items[i], "start"),
                   endAt |-> BoundOf(items[i], "end")]]]

\* ---------------------------- specification: augment_with_llm_messages
MaxCandidates == 2
MaxDescriptions == 2

Candidate(id, title, reason, validity, benefit) ==
    [id |-> id, title |-> title, alternative_reason |-> reason,
     validity |-> validity, benefit |-> benefit]

CandidatePool ==
    { Candidate("a1", Some("T1"), Some("R1"), Window(0, 2),
                Some(NarratedBenefit("percent", BenefitValue("number", 20)))),
      Candidate("a2", Some("T2"), None, None, None),
      Candidate("a3", None, None, Some(ValidityDict(Some(DateStr(1)), None)),
                Some(NarratedBenefit("fixed", BenefitValue("missing", 0)))),
      Candidate("a4", Some("T4"), Some("R4"), Some(EmptyDict),
                Some(NarratedBenefit("fixed", BenefitValue("null", 0)))),
      Candidate("a5", None, Some("R5"), None,
                Some(NarratedBenefit("cashback", BenefitValue("number", 6000)))),
      Candidate("a6", Some("T6"), Some("R6"), None,
                Some(NarratedBenefit("percent", BenefitValue("null", 0)))) }

Descriptions == [id : {"a1", "a2", "zz"}, message : {"M1", "M2"}]

LlmOutcomes ==
    {Unavailable, Fails} \cup {Answers(d) : d \in SeqsUpTo(Descriptions, MaxDescriptions)}

InitNarrate ==
    /\ offers = <<>>
    /\ events = <<>>
    /\ pc = "call"
    /\ args \in [items : SeqsUpTo(CandidatePool, MaxCandidates), llm : LlmOutcomes]
    /\ ret = <<>>

CallAugment ==
    /\ pc = "call"
    /\ ret' = augment_with_llm_messages(args.items, args.llm)
    /\ pc' = "done"
    /\ UNCHANGED <<offers, events, args>>

SpecNarrate == InitNarrate /\ [][CallAugment]_vars

\* ------------------------------------------------------------------ claims
\* The catalog as one stream, and a result element without its derived score.
Catalog == offers \o events
Original(e) == [f \in (DOMAIN e) \ {"recommendation_score"} |-> e[f]]
Count(seq, r) == Cardinality({i \in DOMAIN seq : seq[i] = r})
Returned == [i \in DOMAIN ret |-> Original(ret[i])]
Passes(r) ==
    /\ is_valid_date(r.validity, args.plan.datetime)
    /\ check_eligibility(r.eligibility, args.user.telecom, args.user.payments)

\* C1: with topK at least the catalog size, a record of offers or events is in
\* the result of recommend iff is_valid_date(record.validity, plan.datetime) and
\* check_eligibility(record.eligibility, user.telecom, user.payments) hold; no
\* other field excludes or admits a record.
C1_KeptIffValidAndEligible ==
    (pc = "recommend" /\ args.top_k >= Len(Catalog)) =>
        \A r \in OfferPool \cup EventPool :
            Count(Returned, r) = IF Passes(r) THEN Count(Catalog, r) ELSE 0

C1_Witness ==
    /\ pc = "recommend"
    /\ args.top_k >= Len(Catalog)
    /\ \E i, j \in DOMAIN Catalog :
        /\ Passes(Catalog[i])
        /\ Catalog[i].brand # Some(args.plan.brand)
        /\ Catalog[i].constraints # None
        /\ Count(Returned, Catalog[i]) > 0
        /\ ~Passes(Catalog[j])
        /\ Catalog[j].brand = Some(args.plan.brand)
        /\ Catalog[j].category = Some(args.plan.category)
        /\ Count(Returned, Catalog[j]) = 0

\* The catalog positions of the records that pass the filter.
Survivors == {c \in DOMAIN Catalog : Passes(Catalog[c])}
ScoreAt(c) == Round2(calculate_score(Catalog[c], args.plan))

\* C2: for topK >= 0 the result of recommend is the first min(topK, n) of the n
\* survivors in non-increasing score order: its length is min(topK, n), its
\* scores do not increase, and no survivor left out scores strictly higher than
\* one returned (fewer than j survivors score above the j-th element).
C2_TopKOfDescendingScores ==
    pc = "recommend" =>
        /\ Len(ret) = Min(args.top_k, Cardinality(Survivors))
        /\ \A i \in 1..(Len(ret) - 1) :
              ret[i].recommendation_score >= ret[i + 1].recommendation_score
        /\ \A j \in DOMAIN ret :
              Cardinality({c \in Survivors : ScoreAt(c) > ret[j].recommendation_score}) < j

C2_Witness ==
    /\ pc = "recommend"
    /\ args.top_k = 2
    /\ Cardinality(Survivors) = 3
    /\ Len(ret) = 2
    /\ ret[1].recommendation_score > ret[2].recommendation_score
    /\ \E c \in Survivors : ScoreAt(c) < ret[2].recommendation_score
    /\ ScoreAt(1) < ret[1].recommendation_score

\* The tag of the list a returned record came from.
ListTag(r) == IF r \in OfferPool THEN "offer" ELSE "event"

\* C7: every record of the offers sequence is scored as kind offer (the benefit
\* bonus applies) and every record of the events sequence as kind event (the
\* notes bonus applies), whether or not the record carries a type field.
C7_ScoredByListTag ==
    pc = "recommend" =>
        \A i \in DOMAIN ret :
            ret[i].recommendation_score
                = Round2(calculate_score([Returned[i] EXCEPT !.type = Some(ListTag(Returned[i]))],
                                         args.plan))

Flag(b, points) == IF b THEN points * Scale ELSE 0

\* C3 as stated: the score is the base 50 plus 30 iff the record's brand equals
\* plan.brand, plus 20 iff its category equals plan.category, plus 5 iff it is an
\* event with non-empty notes, plus 5 iff "app" is in channels (plus the benefit
\* bonus, capped at 100); an offer never gets the notes bonus.
C3_BonusesAsStated ==
    pc = "done" =>
        LET item == args.item
            plan == args.plan
        IN  ret = Min(100 * Scale,
                      50 * Scale
                      + Flag(item.brand = Some(plan.brand), 30)
                      + Flag(item.category = Some(plan.category), 20)
                      + Flag(item.type = Some("event") /\ item.notes \notin {None, Some("")}, 5)
                      + Flag(item.channels # None /\ "app" \in item.channels[1], 5)
                      + BenefitBonus(item))

\* C3 amended: as stated, but the brand and the category bonus are earned only by
\* a non-empty brand (category) equal to the plan's; a record that meets no
\* bonus condition scores exactly 50.
C3_BonusesNonEmptyKeys ==
    pc = "done" =>
        LET item == args.item
            plan == args.plan
        IN  /\ ret = Min(100 * Scale,
                         50 * Scale
                         + Flag(item.brand = Some(plan.brand) /\ plan.brand # "", 30)
                         + Flag(item.category = Some(plan.category) /\ plan.category # "", 20)
                         + Flag(item.type = Some("event") /\ item.notes \notin {None, Some("")}, 5)
                         + Flag(item.channels # None /\ "app" \in item.channels[1], 5)
                         + BenefitBonus(item))
            /\ item.type = Some("offer") => ret = calculate_score([item EXCEPT !.notes = None], plan)

C3_Witness ==
    /\ pc = "done"
    /\ args.item.brand = Some("B1") /\ args.plan.brand = "B1"
    /\ args.item.category # Some(args.plan.category)
    /\ args.item.type = Some("event") /\ args.item.notes = Some("note")
    /\ args.item.channels = Some({"app", "web"})
    /\ ret = 90 * Scale

\* The benefit bonus the spec's table gives an offer's benefit.
TableBonus(item) ==
    IF item.type # Some("offer") \/ item.benefit = None THEN 0
    ELSE LET b == item.benefit[1]
         IN  IF b.value = None THEN 0
             ELSE IF b.kind = Some("percent") THEN Min((b.value[1] * Scale) \div 2, 15 * Scale)
             ELSE IF b.kind = Some("fixed") THEN Min((b.value[1] * Scale) \div 500, 10 * Scale)
             ELSE IF b.kind = Some("cashback") THEN Min((b.value[1] * Scale) \div 2, 12 * Scale)
             ELSE IF b.kind = Some("points") THEN Min((b.value[1] * Scale) \div 1000, 8 * Scale)
             ELSE 0

\* C4: an offer with a benefit earns min(value/2, 15) for percent, min(value/500,
\* 10) for fixed, min(value/2, 12) for cashback, min(value/1000, 8) for points and
\* 0 for an unknown or absent kind or an absent value; a record that is not an
\* offer earns no benefit bonus even if it carries a benefit.
C4_BenefitBonusTable ==
    pc = "done" =>
        LET item == args.item
            bare == [item EXCEPT !.benefit = None]
        IN  ret = Min(100 * Scale, RawScore(bare, args.plan) + TableBonus(item))

C4_Witness ==
    /\ pc = "done"
    /\ args.item.type = Some("offer")
    /\ args.item.benefit = Some(BenefitDict(Some("cashback"), Some(40)))
    /\ ret = 62 * Scale

\* C5: for every record and plan, whatever the benefit value (zero and negative
\* numbers included), the score lies between the base 50 and the cap 100.
C5_ScoreBetween50And100 ==
    pc = "done" => (50 * Scale <= ret /\ ret <= 100 * Scale)

\* The least value at which a kind's bonus reaches its cap.
CapValue(kind) ==
    IF kind = Some("percent") THEN 30
    ELSE IF kind = Some("fixed") THEN 5000
    ELSE IF kind = Some("cashback") THEN 24
    ELSE 8000

WithValue(item, v) == [item EXCEPT !.benefit = Some(BenefitDict(item.benefit[1].kind, Some(v)))]

\* C6: for a fixed benefit kind and an otherwise identical record and plan, the
\* score is non-decreasing in benefit.value, and constant from the kind's cap on.
C6_MonotonicInValue ==
    (pc = "done" /\ args.item.benefit # None /\ args.item.benefit[1].value # None) =>
        LET item == args.item
            kind == item.benefit[1].kind
            v1 == item.benefit[1].value[1]
        IN  \A v2 \in BenefitValues :
                v1 <= v2 =>
                    /\ ret <= calculate_score(WithValue(item, v2), args.plan)
                    /\ (kind \in {Some("percent"), Some("fixed"), Some("cashback"), Some("points")}
                        /\ v1 >= CapValue(kind))
                          => ret = calculate_score(WithValue(item, v2), args.plan)

C6_Witness ==
    /\ pc = "done"
    /\ args.item.type = Some("offer")
    /\ args.item.benefit = Some(BenefitDict(Some("percent"), Some(20)))
    /\ ret < calculate_score(WithValue(args.item, 40), args.plan)
    /\ calculate_score(WithValue(args.item, 40), args.plan)
         = calculate_score(WithValue(args.item, 6000), args.plan)
    /\ calculate_score(WithValue(args.item, 40), args.plan) < 100 * Scale

\* Instant named by a parsable date/time string, whatever its offset suffix.
InstantOf(s) == [day |-> s.day, tod |-> s.tod]
InstantBefore(a, b) == a.day < b.day \/ (a.day = b.day /\ a.tod < b.tod)
IsParsable(s) == s.fmt \in {"date", "datetime"}
IsDateBound(x) == x # None /\ x[1].fmt = "date"

\* C8: is_valid_date is true for every plan instant when validity is absent or
\* empty, and a validity with only one bound constrains only that side: with
\* only start the result is (instant >= start), with only end (instant <= end).
C8_OneSidedValidity ==
    pc = "done" =>
        LET v == args.validity
            t == args.target_date
        IN  /\ ~TruthyValidity(v) => ret = TRUE
            /\ (TruthyValidity(v) /\ IsParsable(t) /\ IsDateBound(v[1].start) /\ v[1].end = None)
                  => (ret <=> ~InstantBefore(InstantOf(t), InstantOf(v[1].start[1])))
            /\ (TruthyValidity(v) /\ IsParsable(t) /\ v[1].start = None /\ IsDateBound(v[1].end))
                  => (ret <=> ~InstantBefore(InstantOf(v[1].end[1]), InstantOf(t)))

\* C9: with date bounds start <= end, every plan timestamp whose date lies from
\* start through end inclusive (any time of day, the end date included) is valid.
C9_WholeEndDateValid ==
    pc = "done" =>
        LET v == args.validity
            t == args.target_date
        IN  (/\ TruthyValidity(v) /\ IsParsable(t)
             /\ IsDateBound(v[1].start) /\ IsDateBound(v[1].end)
             /\ v[1].start[1].day <= t.day /\ t.day <= v[1].end[1].day)
                => ret = TRUE

\* C10: for a parsable plan instant (with or without an offset suffix) and
\* parsable bounds, is_valid_date is false whenever start is present and the
\* instant is before it, and whenever end is present and the instant is after it.
C10_OutsideRejected ==
    pc = "done" =>
        LET v == args.validity
            t == args.target_date
        IN  (/\ TruthyValidity(v) /\ IsParsable(t)
             /\ v[1].start = None \/ IsDateBound(v[1].start)
             /\ v[1].end = None \/ IsDateBound(v[1].end))
                => /\ (IsDateBound(v[1].start) /\ InstantBefore(InstantOf(t), InstantOf(v[1].start[1])))
                        => ret = FALSE
                   /\ (IsDateBound(v[1].end) /\ InstantBefore(InstantOf(v[1].end[1]), InstantOf(t)))
                        => ret = FALSE

\* C11: whenever plan.datetime, validity.start or validity.end is a malformed
\* date string, is_valid_date returns true, whatever the other bound says.
C11_MalformedKeepsRecord ==
    pc = "done" =>
        LET v == args.validity
            t == args.target_date
        IN  (\/ TruthyValidity(v) /\ t.fmt = "bad"
             \/ TruthyValidity(v) /\ v[1].start = Some(BadStr)
             \/ TruthyValidity(v) /\ v[1].end = Some(BadStr))
                => ret = TRUE

IsOpen(list) == list = None \/ list[1] = {}

\* C12: check_eligibility is (telecom_any_of absent/empty or user.telecom in it)
\* and (cards_any_of absent/empty or some user payment in it); so it is true
\* when eligibility is absent or both lists are absent/empty, and with only
\* cards_any_of set the result does not depend on the user's telecom.
C12_EligibilityIsConjunction ==
    pc = "done" =>
        LET e == args.eligibility
            tl == IF TruthyEligibility(e) THEN e[1].telecom_any_of ELSE None
            cl == IF TruthyEligibility(e) THEN e[1].cards_any_of ELSE None
        IN  /\ ret <=> /\ IsOpen(tl) \/ args.user_telecom \in tl[1]
                       /\ IsOpen(cl) \/ (args.user_payments \cap cl[1]) # {}
            /\ (IsOpen(tl) /\ IsOpen(cl)) => ret = TRUE
            /\ IsOpen(tl) =>
                  \A t \in Telecoms : check_eligibility(e, t, args.user_payments) = ret

C12_Witness ==
    /\ pc = "done"
    /\ args.eligibility = Some(EligibilityDict(Some({"SKT"}), Some({"CardX", "CardZ"})))
    /\ args.user_telecom = "SKT"
    /\ args.user_payments = {"CardY"}
    /\ ret = FALSE

\* C13: for well-formed bounds is_time_in_range is start <= t <= end when
\* start <= end and (t >= start or t <= end) when start > end, bounds
\* inclusive, t being the time of day of the plan instant.
C13_WindowMembership ==
    pc = "done" =>
        LET s == args.start_time_str
            e == args.end_time_str
            t == args.target_datetime
        IN  (s # None /\ e # None /\ s[1].fmt = "time" /\ e[1].fmt = "time" /\ IsParsable(t))
                => ret <=> IF s[1].tod <= e[1].tod
                           THEN s[1].tod <= t.tod /\ t.tod <= e[1].tod
                           ELSE t.tod >= s[1].tod \/ t.tod <= e[1].tod

C13_Witness ==
    /\ pc = "done"
    /\ args.start_time_str = Some(TimeStr(2))
    /\ args.end_time_str = Some(TimeStr(0))
    /\ args.target_datetime.fmt = "datetime"
    /\ args.target_datetime.tod = 0
    /\ ret = TRUE

\* C14: is_time_in_range is true whenever either bound is absent or empty, and
\* whenever the plan instant or either bound is a malformed string.
C14_TimeFailOpen ==
    pc = "done" =>
        LET s == args.start_time_str
            e == args.end_time_str
        IN  (\/ s \in {None, Some(EmptyStr), Some(BadStr)}
             \/ e \in {None, Some(EmptyStr), Some(BadStr)}
             \/ args.target_datetime.fmt = "bad")
                => ret = TRUE

C14_Witness ==
    /\ pc = "done"
    /\ args.start_time_str = Some(TimeStr(2))
    /\ args.end_time_str = Some(BadStr)
    /\ args.target_datetime.fmt = "datetime"
    /\ args.target_datetime.tod = 0
    /\ ret = TRUE

\* ---- recommend_alternatives (SpecAlt)
NearTrack == ret.near_time_offers
CategoryTrack == ret.category_alternatives
AltOriginal(e) == [f \in (DOMAIN e) \ {"_type", "alternative_reason", "score"} |-> e[f]]
NearRecords == [i \in DOMAIN NearTrack |-> AltOriginal(NearTrack[i])]
CategoryRecords == [i \in DOMAIN CategoryTrack |-> AltOriginal(CategoryTrack[i])]
HasTimes(r) == r.constraints # None /\ r.constraints[1].times # None
TimesStart(r) == r.constraints[1].times[1].start
TimesEnd(r) == r.constraints[1].times[1].end
InWindow(r) == is_time_in_range(args.plan.datetime, TimesStart(r), TimesEnd(r))
QualifiesNear(r) ==
    /\ Passes(r)
    /\ r.brand = Some(args.plan.brand)
    /\ (~HasTimes(r) \/ InWindow(r))
QualifiesCategory(r) ==
    /\ Passes(r)
    /\ r.brand # Some(args.plan.brand)
    /\ r.category = Some(args.plan.category)

C16_BonusByPresence ==
    pc = "alternatives" =>
        \A i \in DOMAIN NearTrack :
            LET e == NearTrack[i]
                r == NearRecords[i]
                base == calculate_score(r, args.plan)
            IN  IF HasTimes(r)
                THEN /\ e.score = base + 20 * Scale
                     /\ e.alternative_reason =
                            AtVisitTime(args.plan, TimesStart(r), TimesEnd(r))
                ELSE /\ e.score = base + 10 * Scale
                     /\ e.alternative_reason = Anytime(args.plan)

\* C16, amended: every near-time candidate has score calculate_score + 20 and
\* the "available at planned visit time (start~end)" reason when
\* constraints.times is an object with at least one key (a half-filled one, or
\* one whose start and end are both null, included), and calculate_score + 10
\* with the "available anytime" reason exactly when constraints.times is absent,
\* null or the empty object {}.
C16_BonusByNonEmptyTimes ==
    pc = "alternatives" =>
        \A i \in DOMAIN NearTrack :
            LET e == NearTrack[i]
                r == NearRecords[i]
                base == calculate_score(r, args.plan)
            IN  IF HasTimes(r) /\ ~r.constraints[1].times[1].empty
                THEN /\ e.score = base + 20 * Scale
                     /\ e.alternative_reason =
                            AtVisitTime(args.plan, TimesStart(r), TimesEnd(r))
                ELSE /\ e.score = base + 10 * Scale
                     /\ e.alternative_reason = Anytime(args.plan)

\* The near-time track holds a record whose times object is {} with the
\* anytime reason, a half-filled one with the visit-time reason and a record
\* without constraints.
C16_Witness ==
    /\ pc = "alternatives"
    /\ \E i, j, k \in DOMAIN NearTrack :
        /\ HasTimes(NearRecords[i]) /\ NearRecords[i].constraints[1].times[1].empty
        /\ NearTrack[i].alternative_reason.text = "available anytime"
        /\ HasTimes(NearRecords[j]) /\ ~NearRecords[j].constraints[1].times[1].empty
        /\ TimesEnd(NearRecords[j]) = None
        /\ NearTrack[j].alternative_reason.text = "available at planned visit time"
        /\ ~HasTimes(NearRecords[k])

\* C17: with topK at least the catalog size, a record is in the
\* category-alternative track iff it is valid and eligible, its brand differs
\* from plan.brand (no brand counts as different) and its category equals
\* plan.category; its score is calculate_score(record) with no bonus; a record
\* of another category is never included.
C17_CategoryMembership ==
    pc = "alternatives" =>
        /\ args.top_k >= Len(Catalog) =>
            \A c \in DOMAIN Catalog :
                Count(CategoryRecords, Catalog[c]) =
                    IF QualifiesCategory(Catalog[c]) THEN Count(Catalog, Catalog[c]) ELSE 0
        /\ \A i \in DOMAIN CategoryTrack :
            /\ CategoryTrack[i].score = calculate_score(CategoryRecords[i], args.plan)
            /\ CategoryTrack[i].alternative_reason =
                    InsteadOf(args.plan, CategoryRecords[i])
            /\ CategoryRecords[i].category = Some(args.plan.category)

\* The track holds a record without brand and one of another brand, while a
\* valid, eligible record of the planned brand and category, and one of another
\* category, are left out.
C17_Witness ==
    /\ pc = "alternatives"
    /\ args.top_k >= Len(Catalog)
    /\ \E i \in DOMAIN CategoryTrack : CategoryRecords[i].brand = None
    /\ \E i \in DOMAIN CategoryTrack : CategoryRecords[i].brand \notin {None, Some(args.plan.brand)}
    /\ \E c \in DOMAIN Catalog :
        /\ Passes(Catalog[c])
        /\ Catalog[c].brand = Some(args.plan.brand)
        /\ Catalog[c].category = Some(args.plan.category)
        /\ Count(CategoryRecords, Catalog[c]) = 0

\* C18: no record is in both near_time_offers and category_alternatives, and a
\* record of the planned brand that the time window keeps out of the near-time
\* track is in neither track.
C18_TracksDisjoint ==
    pc = "alternatives" =>
        /\ \A i \in DOMAIN NearTrack, j \in DOMAIN CategoryTrack :
            NearRecords[i] # CategoryRecords[j]
        /\ \A c \in DOMAIN Catalog :
            (/\ Catalog[c].brand = Some(args.plan.brand)
             /\ HasTimes(Catalog[c])
             /\ ~InWindow(Catalog[c]))
            => /\ Count(NearRecords, Catalog[c]) = 0
               /\ Count(CategoryRecords, Catalog[c]) = 0

\* Both tracks are non-empty, and a valid, eligible record of the planned brand
\* and category whose window does not hold the planned time is in neither.
C18_Witness ==
    /\ pc = "alternatives"
    /\ NearTrack # <<>>
    /\ CategoryTrack # <<>>
    /\ \E c \in DOMAIN Catalog :
        /\ Passes(Catalog[c])
        /\ Catalog[c].brand = Some(args.plan.brand)
        /\ Catalog[c].category = Some(args.plan.category)
        /\ HasTimes(Catalog[c])
        /\ ~InWindow(Catalog[c])
        /\ Count(NearRecords, Catalog[c]) = 0
        /\ Count(CategoryRecords, Catalog[c]) = 0

TrackBonus(e) ==
    IF e.alternative_reason.text = "available at planned visit time" THEN 20 * Scale
    ELSE IF e.alternative_reason.text = "available anytime" THEN 10 * Scale
    ELSE 0
RecommendAll == recommend(args.user, args.plan, offers, events, Len(Catalog))
ScoredByRecommend ==
    Collected(offers, "offer", args.user, args.plan)
        \o Collected(events, "event", args.user, args.plan)

\* C19: for the same user, plan and catalog, every record returned in either
\* track of recommend_alternatives passes recommend's filter (it is in
\* recommend's result for topK = catalog size), and its adjusted score minus
\* its track bonus (20, 10 or 0) is the score recommend computes for that
\* record, which recommend returns rounded to two decimals.
C19_SameCandidatesAsRecommend ==
    pc = "alternatives" =>
        \A e \in {NearTrack[i] : i \in DOMAIN NearTrack}
                    \cup {CategoryTrack[i] : i \in DOMAIN CategoryTrack} :
            /\ \E k \in DOMAIN ScoredByRecommend :
                /\ ScoredByRecommend[k].item = AltOriginal(e)
                /\ ScoredByRecommend[k].score = e.score - TrackBonus(e)
            /\ \E k \in DOMAIN RecommendAll :
                /\ Original(RecommendAll[k]) = AltOriginal(e)
                /\ RecommendAll[k].recommendation_score = Round2(e.score - TrackBonus(e))

\* Both tracks return an entry, the near-time one carrying the bonus 20, from
\* a catalog that also holds a record recommend's filter drops.
C19_Witness ==
    /\ pc = "alternatives"
    /\ \E i \in DOMAIN NearTrack : TrackBonus(NearTrack[i]) = 20 * Scale
    /\ CategoryTrack # <<>>
    /\ Len(RecommendAll) < Len(Catalog)

NearCount == Cardinality({c \in DOMAIN Catalog : QualifiesNear(Catalog[c])})
CategoryCount == Cardinality({c \in DOMAIN Catalog : QualifiesCategory(Catalog[c])})
NonIncreasing(track) ==
    \A i, j \in DOMAIN track : i < j => track[i].score >= track[j].score
UncutAlternatives ==
    recommend_alternatives(args.user, args.plan, offers, events, Len(Catalog))

\* C20: for every topK >= 0 each track of recommend_alternatives is ordered by
\* non-increasing adjusted score and holds min(topK, number of qualifying
\* candidates of that track) entries, and each track is the first entries of
\* what it is without truncation, whatever the other track holds.
C20_TracksCutIndependently ==
    (pc = "alternatives" /\ args.top_k >= 0) =>
        /\ NonIncreasing(NearTrack)
        /\ NonIncreasing(CategoryTrack)
        /\ Len(NearTrack) = Min(args.top_k, NearCount)
        /\ Len(CategoryTrack) = Min(args.top_k, CategoryCount)
        /\ NearTrack = Prefix(UncutAlternatives.near_time_offers, args.top_k)
        /\ CategoryTrack = Prefix(UncutAlternatives.category_alternatives, args.top_k)

\* topK cuts the near-time track, whose entries have different scores, while
\* the category track is returned whole and non-empty.
C20_Witness ==
    /\ pc = "alternatives"
    /\ args.top_k > 0
    /\ NearCount > args.top_k
    /\ Len(NearTrack) = args.top_k
    /\ CategoryCount = args.top_k
    /\ Len(CategoryTrack) = args.top_k
    /\ \E i, j \in DOMAIN UncutAlternatives.near_time_offers :
        UncutAlternatives.near_time_offers[i].score
            # UncutAlternatives.near_time_offers[j].score

\* datetime.weekday() of the planned instant; day 0 is a Monday.
Weekday(s) == fromisoformat(s).day % 7
HasDays(r) == r.constraints # None /\ r.constraints[1].days_of_week # None

\* C21: a record whose constraints.days_of_week is present and does not
\* contain the weekday of plan.datetime is not returned in the near-time track
\* of recommend_alternatives.
C21_DaysOfWeekEnforced ==
    pc = "alternatives" =>
        \A i \in DOMAIN NearTrack :
            HasDays(NearRecords[i]) =>
                Weekday(args.plan.datetime) \in NearRecords[i].constraints[1].days_of_week[1]

\* A dict with one key deleted.
WithoutStart(v) == Some([v[1] EXCEPT !.start = None])
WithoutEnd(v) == Some([v[1] EXCEPT !.end = None])
WithoutTelecoms(e) == Some([e[1] EXCEPT !.telecom_any_of = None])
WithoutCards(e) == Some([e[1] EXCEPT !.cards_any_of = None])

\* C22: a record carrying only an id passes the filter of recommend for every
\* user and plan and scores 50, and deleting validity, eligibility, a validity
\* bound or an eligibility list from a record that passes the filter never
\* makes it fail the filter.
C22_AbsenceNeverExcludes ==
    pc = "done" =>
        /\ is_valid_date(BlankItem.validity, args.target_date)
        /\ \A t \in Telecoms, p \in PaymentSets :
                check_eligibility(BlankItem.eligibility, t, p)
        /\ \A plan \in PlanKeys : calculate_score(BlankItem, plan) = 50 * Scale
        /\ ret = TRUE =>
            /\ is_valid_date(None, args.target_date)
            /\ TruthyValidity(args.validity) =>
                /\ is_valid_date(WithoutStart(args.validity), args.target_date)
                /\ is_valid_date(WithoutEnd(args.validity), args.target_date)
        /\ \A e \in Eligibilities, t \in Telecoms, p \in PaymentSets :
            (TruthyEligibility(e) /\ check_eligibility(e, t, p)) =>
                /\ check_eligibility(None, t, p)
                /\ check_eligibility(WithoutTelecoms(e), t, p)
                /\ check_eligibility(WithoutCards(e), t, p)

\* C23: every element returned by recommend is a catalog record with all its
\* fields unchanged plus recommendation_score, which is the record's score
\* rounded to 2 decimals and lies in 0..100.
C23_RecordPlusBoundedScore ==
    pc = "recommend" =>
        \A i \in DOMAIN ret :
            /\ Count(Catalog, Returned[i]) > 0
            /\ DOMAIN ret[i] = DOMAIN Returned[i] \cup {"recommendation_score"}
            /\ ret[i].recommendation_score =
                    Round2(calculate_score(Returned[i], args.plan))
            /\ ret[i].recommendation_score >= 0
            /\ ret[i].recommendation_score <= 100 * Scale

\* ---- requests served concurrently (SpecServe)
Done(r) == pc[r] = "done"
\* What the call of a request returns when it runs alone over the catalog.
Alone(call) ==
    IF call.fn = "recommend"
    THEN recommend(call.user, call.plan, offers, events, call.top_k)
    ELSE recommend_alternatives(call.user, call.plan, offers, events, call.top_k)
PassesCall(rec, call) ==
    /\ is_valid_date(rec.validity, call.plan.datetime)
    /\ check_eligibility(rec.eligibility, call.user.telecom, call.user.payments)
NoResult(call) ==
    IF call.fn = "recommend" THEN <<>>
    ELSE [near_time_offers |-> <<>>, category_alternatives |-> <<>>]

C25_CatalogNeverWritten == [][offers' = offers /\ events' = events]_vars

\* A call of each function has returned a non-empty result whose elements
\* carry the derived fields, and no catalog record carries any of them.
C25_Witness ==
    /\ Done("r1") /\ Done("r2")
    /\ args["r1"].fn = "recommend" /\ args["r2"].fn = "recommend_alternatives"
    /\ ret["r1"] # <<>>
    /\ "recommendation_score" \in DOMAIN ret["r1"][1]
    /\ ret["r2"].near_time_offers # <<>>
    /\ {"_type", "alternative_reason", "score"} \subseteq DOMAIN ret["r2"].near_time_offers[1]
    /\ \A c \in DOMAIN Catalog : DOMAIN Catalog[c] = DOMAIN BlankItem

\* C26: under every interleaving of the requests a finished request holds
\* exactly what its call returns when run alone, and the shared catalog holds
\* records as they were loaded.
C26_AsIfRunAlone ==
    /\ \A r \in Requests : Done(r) => ret[r] = Alone(args[r])
    /\ \A i \in DOMAIN offers : offers[i] \in ServeOfferPool
    /\ \A i \in DOMAIN events : events[i] \in ServeEventPool

\* One request has finished with a non-empty result while another, with other
\* arguments, is in the middle of its loop over the same catalog.
C26_Witness ==
    /\ Done("r1")
    /\ ret["r1"] # NoResult(args["r1"])
    /\ pc["r2"] = "loop"
    /\ args["r2"] # args["r1"]
    /\ ret["r2"].n > 0
    /\ ret["r2"].n < Len(Catalog)

\* C27: when no record passes the two filters (the empty catalog included),
\* recommend returns the empty sequence and recommend_alternatives returns both
\* tracks empty, and the call ends normally.
C27_NoSurvivorNoResult ==
    \A r \in Requests :
        /\ (pc[r] = "loop" /\ ret[r].n = Len(Catalog)) => ENABLED SortAndCut(r)
        /\ (Done(r) /\ \A c \in DOMAIN Catalog : ~PassesCall(Catalog[c], args[r]))
                => ret[r] = NoResult(args[r])

\* Over a catalog that is not empty and of which no record passes the filters,
\* a call of each function has returned its empty result.
C27_Witness ==
    /\ Catalog # <<>>
    /\ Done("r1") /\ Done("r2")
    /\ args["r1"].fn = "recommend" /\ args["r2"].fn = "recommend_alternatives"
    /\ \A c \in DOMAIN Catalog : ~PassesCall(Catalog[c], args["r1"])
    /\ \A c \in DOMAIN Catalog : ~PassesCall(Catalog[c], args["r2"])
    /\ ret["r1"] = <<>>
    /\ ret["r2"] = NoResult(args["r2"])

\* ---- ties in recommend (Spec)
SurvivingCatalog == SelectSeq(Catalog, Passes)
OfScore(seq, score) ==
    SelectSeq(seq, LAMBDA rec : calculate_score(rec, args.plan) = score)
IsPrefix(a, b) == Len(a) <= Len(b) /\ a = SubSeq(b, 1, Len(a))

\* C28: among survivors of equal score recommend keeps catalog insertion order
\* (offers first, then events, each list in its own order): the returned
\* records of one score are, in result order, the first of the survivors of
\* that score in catalog order.
C28_TiesKeepCatalogOrder ==
    pc = "recommend" =>
        \A i \in DOMAIN Returned :
            LET score == calculate_score(Returned[i], args.plan)
            IN  IsPrefix(OfScore(Returned, score), OfScore(SurvivingCatalog, score))

\* Two different offers and an event, all of one score, are returned in
\* catalog order.
C28_Witness ==
    /\ pc = "recommend"
    /\ Len(ret) = 3
    /\ Len(offers) = 2 /\ Len(events) = 1
    /\ offers[1] # offers[2]
    /\ \A i \in DOMAIN ret : ret[i].recommendation_score = ret[1].recommendation_score
    /\ Returned = Catalog

\* ---- scores across the two tracks (SpecAlt)
NonNegativeBenefits ==
    \A c \in DOMAIN Catalog :
        LET benefit == Catalog[c].benefit
        IN  benefit = None \/ benefit[1].value = None \/ benefit[1].value[1] >= 0

\* C29: for a catalog whose benefit values are all non-negative and a plan
\* with non-empty brand, every near-time candidate's adjusted score is at
\* least 90 and every category alternative's score is at most 90, so no
\* category alternative scores higher than a near-time candidate.
C29_NearTimeNotOutranked ==
    (pc = "alternatives" /\ NonNegativeBenefits /\ args.plan.brand # "") =>
        /\ \A i \in DOMAIN NearTrack : NearTrack[i].score >= 90 * Scale
        /\ \A j \in DOMAIN CategoryTrack : CategoryTrack[j].score <= 90 * Scale
        /\ \A i \in DOMAIN NearTrack, j \in DOMAIN CategoryTrack :
                CategoryTrack[j].score <= NearTrack[i].score

\* Both bounds are met: a near-time candidate and a category alternative of
\* score 90 are returned together.
C29_Witness ==
    /\ pc = "alternatives"
    /\ NonNegativeBenefits
    /\ \E i \in DOMAIN NearTrack : NearTrack[i].score = 90 * Scale
    /\ \E j \in DOMAIN CategoryTrack : CategoryTrack[j].score = 90 * Scale

\* ---- augment_with_llm_messages (SpecNarrate)
\* The message generated for a candidate, if any: the last description that
\* the model returned for its id.
Generated(id) ==
    IF args.llm.outcome # "answers" THEN None
    ELSE LET at == {i \in DOMAIN args.llm.descriptions : args.llm.descriptions[i].id = id}
         IN  IF at = {} THEN None
             ELSE Some(args.llm.descriptions[CHOOSE i \in at : \A j \in at : j <= i].message)

\* C30: augment_with_llm_messages returns one {message, startAt, endAt} triple
\* per input candidate, in input order, whether the language-model call
\* succeeds, fails or is unavailable; the message is the one generated for the
\* candidate's id, else the candidate's alternative_reason, else its title.
C30_OneTriplePerCandidate ==
    pc = "done" =>
        /\ ~ret.raised
        /\ Len(ret.data) = Len(args.items)
        /\ \A i \in DOMAIN args.items :
            LET item == args.items[i]
            IN  /\ ret.data[i].startAt = BoundOf(item, "start")
                /\ ret.data[i].endAt = BoundOf(item, "end")
                /\ ret.data[i].message =
                        IF Generated(item.id) # None THEN Generated(item.id)[1]
                        ELSE IF item.alternative_reason # None
                             THEN item.alternative_reason[1]
                        ELSE IF item.title # None THEN item.title[1]
                        ELSE ""

====
